---- MODULE Spec2Model ----
(***************************************************************************)
(* Model of docutils/frontend.py: OptionParser (construction and the merge *)
(* of component option specifications, check_values, check_threshold,      *)
(* check_args) and ConfigParser.optionxform.                               *)
(*                                                                         *)
(* Python values are modelled as records with a type tag:                  *)
(*   PyNone / PyStr(s)        None and a text string kept as an atom       *)
(*   PyInt(n) / PyChars(cs)   an int, and a string kept as a sequence of   *)
(*                            one-character strings (so that int(),        *)
(*                            lower(), replace() and %r act on characters) *)
(***************************************************************************)
EXTENDS Integers, Sequences, FiniteSets

VARIABLES
    op,          \* the method under execution
    pc,          \* "call": about to run; "return": returned; "raise": raised
    components,  \* argument of OptionParser.__init__
    parser,      \* the OptionParser object (option container state)
    values,      \* the Values object handed to check_values
    args,        \* the positional-argument list (a mutable Python list)
    level,       \* argument of check_threshold
    optionstr,   \* argument of ConfigParser.optionxform
    values0,     \* values as they were when the method was called
    args0,       \* args as they were when the method was called
    ret          \* what the method returned or raised

vars == <<op, pc, components, parser, values, args, level, optionstr,
          values0, args0, ret>>

\* ------------------------------------------------------------- bounds
MaxComponents == 2
MaxStrLen == 3
MaxArgs == 3

\* ------------------------------------------------------ Python values
PyNone == [t |-> "None", s |-> ""]
PyStr(s) == [t |-> "str", s |-> s]

NoneLevel == [t |-> "None", i |-> 0, s |-> <<>>]
PyInt(n) == [t |-> "int", i |-> n, s |-> <<>>]
PyChars(cs) == [t |-> "str", i |-> 0, s |-> cs]

\* Items of a cmdline_options tuple: a title or description (None or a
\* string) or an option_spec (a tuple of option entries).
ItemNone == [t |-> "None", s |-> "", spec |-> <<>>]
ItemStr(s) == [t |-> "str", s |-> s, spec |-> <<>>]
ItemSpec(entries) == [t |-> "tuple", s |-> "", spec |-> entries]

\* Python truth value of an item ("if title:").
Truthy(v) ==
    \/ v.t = "str" /\ v.s # ""
    \/ v.t = "tuple" /\ v.spec # <<>>

\* One option entry ('help text', [option strings], {keyword arguments});
\* the help text is left out, the keyword arguments are kept as action/dest
\* ("" where the dictionary has no such key).
Entry(strings, action, dest) ==
    [option_strings |-> strings, action |-> action, dest |-> dest]

\* --------------------------------------- OptionParser class attributes
thresholds ==
    [name \in {<<"i","n","f","o">>, <<"w","a","r","n","i","n","g">>,
               <<"e","r","r","o","r">>, <<"s","e","v","e","r","e">>,
               <<"n","o","n","e">>} |->
        CASE name = <<"i","n","f","o">> -> 1
          [] name = <<"w","a","r","n","i","n","g">> -> 2
          [] name = <<"e","r","r","o","r">> -> 3
          [] name = <<"s","e","v","e","r","e">> -> 4
          [] name = <<"n","o","n","e">> -> 5]

cmdline_options ==
    << ItemStr("General Docutils Options"),
       ItemNone,
       ItemSpec(<<
         Entry(<<"--generator", "-g">>, "store_true", ""),
         Entry(<<"--no-generator">>, "store_false", "generator"),
         Entry(<<"--date", "-d">>, "store_const", "datestamp"),
         Entry(<<"--time", "-t">>, "store_const", "datestamp"),
         Entry(<<"--no-datestamp">>, "store_const", "datestamp"),
         Entry(<<"--source-link", "-s">>, "store_true", ""),
         Entry(<<"--no-source-link">>, "store_false", "source_link"),
         Entry(<<"--report", "-r">>, "", "report_level"),
         Entry(<<"--verbose", "-v">>, "store_const", "report_level"),
         Entry(<<"--halt">>, "", "halt_level"),
         Entry(<<"--strict">>, "store_const", "halt_level"),
         Entry(<<"--debug">>, "store_true", ""),
         Entry(<<"--no-debug">>, "store_false", "debug"),
         Entry(<<"--warnings">>, "", "warning_stream"),
         Entry(<<"--input-encoding", "-i">>, "", ""),
         Entry(<<"--output-encoding", "-o">>, "", ""),
         Entry(<<"--language", "-l">>, "", "language_code"),
         Entry(<<"--version">>, "version", ""),
         Entry(<<"--help", "-h">>, "help", ""),
         Entry(<<"--dump-internal-document-attributes">>, "store_true", "")
       >>) >>

\* A component: None, or an object with a cmdline_options attribute.
NoComponent == [none |-> TRUE, cmdline_options |-> <<>>]
Component(spec) == [none |-> FALSE, cmdline_options |-> spec]

\* The parser itself, as the component it appends to the list.
self == Component(cmdline_options)

\* ----------------------------------------------------------- exceptions
NoExc == [kind |-> "", msg |-> <<>>]
Exc(kind, msg) == [kind |-> kind, msg |-> msg]

\* ------------------------------------------------- optik (option store)
\* optik.OptionParser.__init__(help=None, format=Titled()): an empty option
\* container; no version string unless one is passed.
\*   option_list    the options added to the parser itself (top level)
\*   option_groups  the OptionGroups, each with its own option_list
\*   opts           the option strings bound so far (shared by the parser
\*                  and all its groups)
\*   registered     every option added, in the order of the add_option calls
NewParser ==
    [version |-> "", option_list |-> <<>>, option_groups |-> <<>>,
     opts |-> {}, registered |-> <<>>]

Strings(entry) == {entry.option_strings[k] : k \in DOMAIN entry.option_strings}

\* optik: group.add_option(...) with the default conflict handler: an option
\* string that is already bound raises OptionConflictError; otherwise the
\* option is appended to the group's (g > 0) or the parser's (g = 0) list.
add_option(p, g, entry) ==
    IF Strings(entry) \cap p.opts # {}
    THEN [parser |-> p, exc |-> Exc("OptionConflictError", <<>>)]
    ELSE [parser |->
            [p EXCEPT
               !.option_list = IF g = 0 THEN Append(@, entry) ELSE @,
               !.option_groups =
                   [k \in DOMAIN @ |->
                      IF k = g
                      THEN [@[k] EXCEPT !.option_list = Append(@, entry)]
                      ELSE @[k]],
               !.opts = @ \cup Strings(entry),
               !.registered = Append(@, entry)],
          exc |-> NoExc]

\* optik: OptionGroup(parser, title, description) + add_option_group(group).
add_option_group(p, title, description) ==
    [p EXCEPT !.option_groups =
        Append(@, [title |-> title, description |-> description,
                   option_list |-> <<>>])]

\* optik: OptionParser.error(msg) prints the usage and exits: it never
\* returns to its caller.
error(msg) == Exc("SystemExit", msg)

\* ------------------------------------------- populate_from_components
Min(a, b) == IF a < b THEN a ELSE b

\* cmdline_options[i:i+3]
Slice(spec, i) == SubSeq(spec, i + 1, Min(i + 3, Len(spec)))

\* while i < len(cmdline_options)
\* (faulty variant: stops before an incomplete trailing triple)
LoopCondSkipsTail(i, n) == i + 3 <= n
LoopCond(i, n) == i < n

\* if title: group = OptionGroup(...); add_option_group(group)
\* else:     group = self
\* The result is the parser and the group's index (0: the parser itself).
\* (faulty variant: reuses the section that already has the title)
SelectGroupMerging(p, title, description) ==
    IF Truthy(title)
    THEN IF \E k \in DOMAIN p.option_groups : p.option_groups[k].title = title
         THEN [parser |-> p,
               group |-> CHOOSE k \in DOMAIN p.option_groups :
                            p.option_groups[k].title = title]
         ELSE [parser |-> add_option_group(p, title, description),
               group |-> Len(p.option_groups) + 1]
    ELSE [parser |-> p, group |-> 0]
SelectGroup(p, title, description) ==
    IF Truthy(title)
    THEN [parser |-> add_option_group(p, title, description),
          group |-> Len(p.option_groups) + 1]
    ELSE [parser |-> p, group |-> 0]

\* group.add_option(help=help_text, *option_strings, **kwargs)
\* (faulty variant: a conflict is caught and the entry skipped)
AddEntrySwallowingConflict(p, g, entry) ==
    IF Strings(entry) \cap p.opts # {}
    THEN [parser |-> p, exc |-> NoExc]
    ELSE add_option(p, g, entry)
AddEntry(p, g, entry) == add_option(p, g, entry)

\* for (help_text, option_strings, kwargs) in option_spec: ...
\* (entries j, j+1, ... of option_spec, stopping at the first exception)
RECURSIVE AddEntries(_, _, _, _)
AddEntries(p, g, option_spec, j) ==
    IF j > Len(option_spec)
    THEN [parser |-> p, exc |-> NoExc]
    ELSE LET r == AddEntry(p, g, option_spec[j])
         IN IF r.exc # NoExc THEN r
            ELSE AddEntries(r.parser, g, option_spec, j + 1)

\* The while loop over one component's cmdline_options, from index i.
\* Unpacking a slice of fewer than three items raises ValueError.
RECURSIVE WhileLoop(_, _, _)
WhileLoop(p, spec, i) ==
    IF ~LoopCond(i, Len(spec))
    THEN [parser |-> p, exc |-> NoExc]
    ELSE LET triple == Slice(spec, i)
         IN IF Len(triple) # 3
            THEN [parser |-> p, exc |-> Exc("ValueError", <<>>)]
            ELSE LET sel == SelectGroup(p, triple[1], triple[2])
                     r == AddEntries(sel.parser, sel.group, triple[3].spec, 1)
                 IN IF r.exc # NoExc THEN r
                    ELSE WhileLoop(r.parser, spec, i + 3)

\* for component in components: if component is not None: ...
RECURSIVE populate_from_components(_, _, _)
populate_from_components(p, comps, k) ==
    IF k > Len(comps)
    THEN [parser |-> p, exc |-> NoExc]
    ELSE IF comps[k].none
         THEN populate_from_components(p, comps, k + 1)
         ELSE LET r == WhileLoop(p, comps[k].cmdline_options, 0)
              IN IF r.exc # NoExc THEN r
                 ELSE populate_from_components(r.parser, comps, k + 1)

\* tuple(components) + (self,)
\* (faulty variant: the parser's own options first)
WithSelfFirst(comps) == <<self>> \o comps
WithSelf(comps) == comps \o <<self>>

\* version_template = '%%prog (Docutils %s)' % docutils.__version__
version_template == "%prog (Docutils <version>)"

\* OptionParser.__init__(components): the state of the new parser and the
\* exception that ended the construction, if any.
OptionParser_init(comps) ==
    LET p0 == NewParser
        p1 == IF p0.version = "" THEN [p0 EXCEPT !.version = version_template]
              ELSE p0
    IN populate_from_components(p1, WithSelf(comps), 1)

\* ------------------------------------------------------------ strings
UpperCase ==
    <<"A","B","C","D","E","F","G","H","I","J","K","L","M",
      "N","O","P","Q","R","S","T","U","V","W","X","Y","Z">>
LowerCase ==
    <<"a","b","c","d","e","f","g","h","i","j","k","l","m",
      "n","o","p","q","r","s","t","u","v","w","x","y","z">>

\* str.lower(), one character
LowerChar(c) ==
    IF \E k \in DOMAIN UpperCase : UpperCase[k] = c
    THEN LowerCase[CHOOSE k \in DOMAIN UpperCase : UpperCase[k] = c]
    ELSE c

\* str.lower()
Lower(cs) == [k \in DOMAIN cs |-> LowerChar(cs[k])]

\* str.replace(old, new) for one-character old and new
Replace(cs, old, new) == [k \in DOMAIN cs |-> IF cs[k] = old THEN new ELSE cs[k]]

Digits == <<"0","1","2","3","4","5","6","7","8","9">>
IsDigit(c) == \E k \in DOMAIN Digits : Digits[k] = c
DigitValue(c) == (CHOOSE k \in DOMAIN Digits : Digits[k] = c) - 1

RECURSIVE DecimalValue(_)
DecimalValue(cs) ==
    IF cs = <<>> THEN 0
    ELSE 10 * DecimalValue(SubSeq(cs, 1, Len(cs) - 1)) + DigitValue(cs[Len(cs)])

\* int(level): an int is returned as it is; a string parses when it is an
\* optional sign followed by one or more decimal digits (the strings of this
\* model hold no white space); any other string raises ValueError and None
\* raises TypeError.
int(lv) ==
    IF lv.t = "int" THEN [exc |-> "", i |-> lv.i]
    ELSE IF lv.t # "str" THEN [exc |-> "TypeError", i |-> 0]
    ELSE LET signed == lv.s # <<>> /\ lv.s[1] \in {"+", "-"}
             digits == IF signed THEN Tail(lv.s) ELSE lv.s
         IN IF digits # <<>> /\ \A k \in DOMAIN digits : IsDigit(digits[k])
            THEN [exc |-> "",
                  i |-> IF signed /\ lv.s[1] = "-" THEN 0 - DecimalValue(digits)
                        ELSE DecimalValue(digits)]
            ELSE [exc |-> "ValueError", i |-> 0]

RECURSIVE Escaped(_, _)
Escaped(cs, quote) ==
    IF cs = <<>> THEN <<>>
    ELSE (IF cs[1] = quote \/ cs[1] = "\\" THEN <<"\\", cs[1]>> ELSE <<cs[1]>>)
         \o Escaped(Tail(cs), quote)

\* repr() of a str of printable ASCII characters: in single quotes, unless
\* it holds a single quote and no double quote; quote and backslash escaped.
Repr(cs) ==
    LET has(c) == \E k \in DOMAIN cs : cs[k] = c
        quote == IF has("'") /\ ~has("\"") THEN "\"" ELSE "'"
    IN <<quote>> \o Escaped(cs, quote) \o <<quote>>

\* 'Unknown threshold: %r.' % level
\* (faulty variant: %s in place of %r)
UnknownThresholdPlain(cs) ==
    <<"U", "n", "k", "n", "o", "w", "n", " ", "t", "h", "r", "e", "s", "h", "o", "l", "d", ":", " ">> \o cs \o <<".">>
UnknownThreshold(cs) ==
    <<"U", "n", "k", "n", "o", "w", "n", " ", "t", "h", "r", "e", "s", "h", "o", "l", "d", ":", " ">> \o Repr(cs) \o <<".">>

\* 'Maximum 2 arguments allowed.'
MaximumArguments ==
    <<"M", "a", "x", "i", "m", "u", "m", " ", "2", " ", "a", "r", "g", "u", "m", "e", "n", "t", "s", " ", "a", "l", "l", "o", "w", "e", "d", ".">>

\* ---------------------------------------------------- check_threshold
\* The result is the returned value and the exception raised, if any.
\* (faulty variant of the returned int: clamped to 1..5)
ResolveClamped(n) == PyInt(IF n < 1 THEN 1 ELSE IF n > 5 THEN 5 ELSE n)
Resolved(n) == PyInt(n)

\* self.thresholds[level.lower()] succeeds
Lookup(cs) == Lower(cs) \in DOMAIN thresholds

Unknown(lv) == [value |-> NoneLevel, exc |-> error(UnknownThreshold(lv.s))]

check_threshold(lv) ==
    LET n == int(lv)
    IN IF n.exc = "" THEN [value |-> Resolved(n.i), exc |-> NoExc]
       ELSE IF n.exc # "ValueError"
       THEN [value |-> NoneLevel, exc |-> Exc(n.exc, <<>>)]
       ELSE IF Lookup(lv.s)
       THEN [value |-> PyInt(thresholds[Lower(lv.s)]), exc |-> NoExc]
       ELSE Unknown(lv)

\* --------------------------------------------------------- check_args
\* if args: x = args.pop(0)   (the value popped, and the list left)
\* (faulty variant: args[0] read, not popped)
PopKeeps(a) == IF a # <<>> THEN [x |-> PyStr(a[1]), rest |-> a]
               ELSE [x |-> PyNone, rest |-> a]
Pop(a) == IF a # <<>> THEN [x |-> PyStr(a[1]), rest |-> Tail(a)]
          ELSE [x |-> PyNone, rest |-> a]

\* if args: self.error(...)   (after the two pops)
\* (faulty variant: one argument too many is let through)
TooManyOverThree(a) == Len(a) > 1
TooMany(a) == a # <<>>

\* The result is (source, destination), the list as it is left, and the
\* exception raised, if any.
check_args(a) ==
    LET p1 == Pop(a)
        p2 == Pop(p1.rest)
    IN IF TooMany(p2.rest)
       THEN [source |-> PyNone, destination |-> PyNone, args |-> p2.rest,
             exc |-> error(MaximumArguments)]
       ELSE [source |-> p1.x, destination |-> p2.x, args |-> p2.rest,
             exc |-> NoExc]

\* ------------------------------------------------------- check_values
\* values.halt_level = self.check_threshold(values.halt_level)
\* (faulty variant: report_level resolved twice)
HaltArgumentFromReport(v) == v.report_level
HaltArgument(v) == v.halt_level

\* The result is the Values object and the argument list as they are left,
\* the tuple returned (the identity of the Values object returned, source,
\* destination) and the exception raised, if any.
check_values(v, a) ==
    LET r1 == check_threshold(v.report_level)
        v1 == [v EXCEPT !.report_level = r1.value]
        r2 == check_threshold(HaltArgument(v1))
        v2 == [v1 EXCEPT !.halt_level = r2.value]
        r3 == check_args(a)
    IN IF r1.exc # NoExc
       THEN [values |-> v, args |-> a, returned |-> 0, source |-> PyNone,
             destination |-> PyNone, exc |-> r1.exc]
       ELSE IF r2.exc # NoExc
       THEN [values |-> v1, args |-> a, returned |-> 0, source |-> PyNone,
             destination |-> PyNone, exc |-> r2.exc]
       ELSE IF r3.exc # NoExc
       THEN [values |-> v2, args |-> r3.args, returned |-> 0,
             source |-> PyNone, destination |-> PyNone, exc |-> r3.exc]
       ELSE [values |-> v2, args |-> r3.args, returned |-> v2.id,
             source |-> r3.source, destination |-> r3.destination,
             exc |-> NoExc]

\* -------------------------------------------- ConfigParser.optionxform
\* (faulty variant: no lower())
optionxformNoLower(cs) == Replace(cs, "-", "_")
optionxform(cs) == Replace(Lower(cs), "-", "_")

\* ------------------------------------------------------------- inputs
\* All sequences over a set, up to a length.
SeqsUpTo(S, n) == UNION {[1..m -> S] : m \in 0..n}

\* Components handed to the constructor.
OptFoo == Entry(<<"--foo", "-f">>, "store_true", "")
OptBar == Entry(<<"--bar">>, "", "bar")
OptBaz == Entry(<<"--baz">>, "", "")
OptFooAgain == Entry(<<"--foo">>, "store_false", "foo")
OptHint == Entry(<<"--hint", "-h">>, "", "")
OptQux == Entry(<<"--qux", "-q">>, "", "")
OptZap == Entry(<<"--zap">>, "", "")
OptPow == Entry(<<"--pow">>, "", "")

ComponentPool ==
    { NoComponent,
      Component(<<>>),
      Component(<<ItemStr("Foo"), ItemStr("about foo"), ItemSpec(<<OptFoo, OptBar>>)>>),
      Component(<<ItemStr("Foo"), ItemNone, ItemSpec(<<OptBaz>>)>>),
      Component(<<ItemNone, ItemNone, ItemSpec(<<OptFooAgain>>)>>),
      Component(<<ItemStr(""), ItemNone, ItemSpec(<<OptHint>>)>>),
      Component(<<ItemNone, ItemStr("loose"), ItemSpec(<<OptQux>>),
                  ItemStr("Bar"), ItemNone, ItemSpec(<<OptZap>>)>>),
      Component(<<ItemStr("Foo"), ItemStr("about foo")>>),
      Component(<<ItemStr("Baz"), ItemNone, ItemSpec(<<OptFooAgain, OptPow>>),
                  ItemStr("Extra")>>) }

ComponentLists == SeqsUpTo(ComponentPool, MaxComponents)

\* Threshold values: ints, every short string over a few characters, every
\* spelling in upper and lower case of the five names, and some near misses.
LevelAlphabet == {"0", "3", "9", "-", "+", "x", "'"}

UpperChar(c) ==
    IF \E k \in DOMAIN LowerCase : LowerCase[k] = c
    THEN UpperCase[CHOOSE k \in DOMAIN LowerCase : LowerCase[k] = c]
    ELSE c

Spellings(name) ==
    {[k \in DOMAIN name |-> IF k \in up THEN UpperChar(name[k]) ELSE name[k]] :
        up \in SUBSET DOMAIN name}

NearMisses ==
    { <<"b","o","g","u","s">>, <<"w","a","r","n">>, <<"i","n","f","o","s">>,
      <<"e","r","r","o","r","1">>, <<"N","o","n","e","-">>, <<"2","x">> }

LevelStrings ==
    SeqsUpTo(LevelAlphabet, MaxStrLen)
    \cup UNION {Spellings(name) : name \in DOMAIN thresholds}
    \cup NearMisses

Levels == {PyInt(n) : n \in -1..6} \cup {PyChars(cs) : cs \in LevelStrings}

\* Positional arguments.
ArgLists == SeqsUpTo({"a", "b"}, MaxArgs)

\* Values objects as the tokenizer or a configuration file leaves them.
ParsedLevels ==
    { PyInt(2), PyInt(4), PyChars(<<"3">>), PyChars(<<"9","9">>),
      PyChars(<<"i","n","f","o">>), PyChars(<<"S","e","v","e","r","e">>),
      PyChars(<<"b","o","g","u","s">>) }

ValuesObjects ==
    [id : {1, 2}, report_level : ParsedLevels, halt_level : ParsedLevels,
     generator : {"None", "True"}, language_code : {"en"}]

NoValues ==
    [id |-> 0, report_level |-> NoneLevel, halt_level |-> NoneLevel,
     generator |-> "None", language_code |-> ""]

\* Configuration-file keys.
KeyAlphabet == {"A", "a", "-", "_", "z"}

Keys ==
    SeqsUpTo(KeyAlphabet, MaxStrLen)
    \cup { <<"R","e","p","o","r","t","-","L","e","v","e","l">>,
           <<"R","E","P","O","R","T","_","L","E","V","E","L">>,
           <<"r","e","p","o","r","t","_","l","e","v","e","l">> }

\* ------------------------------------------------------ state machine
\* What a method hands back: the exception raised (NoExc on a return) and
\* the value returned: a level (check_threshold), source and destination
\* (check_args, check_values), the identity of the Values object
\* (check_values), a string (optionxform), the new parser (constructor).
NoRet ==
    [exc |-> NoExc, value |-> NoneLevel, source |-> PyNone,
     destination |-> PyNone, values |-> 0, str |-> <<>>, object |-> FALSE]

\* The parser a front end without components constructs.
DefaultParser == OptionParser_init(<<>>).parser

Idle ==
    /\ pc = "call"
    /\ ret = NoRet

InitConstruct ==
    /\ op = "__init__"
    /\ components \in ComponentLists
    /\ parser = NewParser
    /\ values = NoValues /\ values0 = NoValues
    /\ args = <<>> /\ args0 = <<>>
    /\ level = NoneLevel
    /\ optionstr = <<>>

InitCheckValues ==
    /\ op = "check_values"
    /\ components = <<>>
    /\ parser = DefaultParser
    /\ values \in ValuesObjects /\ values0 = values
    /\ args \in ArgLists /\ args0 = args
    /\ level = NoneLevel
    /\ optionstr = <<>>

InitCheckThreshold ==
    /\ op = "check_threshold"
    /\ components = <<>>
    /\ parser = DefaultParser
    /\ values = NoValues /\ values0 = NoValues
    /\ args = <<>> /\ args0 = <<>>
    /\ level \in Levels
    /\ optionstr = <<>>

InitCheckArgs ==
    /\ op = "check_args"
    /\ components = <<>>
    /\ parser = DefaultParser
    /\ values = NoValues /\ values0 = NoValues
    /\ args \in ArgLists /\ args0 = args
    /\ level = NoneLevel
    /\ optionstr = <<>>

InitOptionxform ==
    /\ op = "optionxform"
    /\ components = <<>>
    /\ parser = DefaultParser
    /\ values = NoValues /\ values0 = NoValues
    /\ args = <<>> /\ args0 = <<>>
    /\ level = NoneLevel
    /\ optionstr \in Keys

Init ==
    /\ Idle
    /\ \/ InitConstruct
       \/ InitCheckValues
       \/ InitCheckThreshold
       \/ InitCheckArgs
       \/ InitOptionxform

Outcome(exc) == IF exc = NoExc THEN "return" ELSE "raise"

\* OptionParser(components)
Construct ==
    /\ op = "__init__" /\ pc = "call"
    /\ LET r == OptionParser_init(components)
       IN /\ parser' = r.parser
          /\ pc' = Outcome(r.exc)
          /\ ret' = [NoRet EXCEPT !.exc = r.exc, !.object = (r.exc = NoExc)]
    /\ UNCHANGED <<op, components, values, args, level, optionstr,
                   values0, args0>>

\* parser.check_values(values, args)
CheckValues ==
    /\ op = "check_values" /\ pc = "call"
    /\ LET r == check_values(values, args)
       IN /\ values' = r.values
          /\ args' = r.args
          /\ pc' = Outcome(r.exc)
          /\ ret' = [NoRet EXCEPT !.exc = r.exc, !.values = r.returned,
                                  !.source = r.source,
                                  !.destination = r.destination]
    /\ UNCHANGED <<op, components, parser, level, optionstr, values0, args0>>

\* parser.check_threshold(level)
CheckThreshold ==
    /\ op = "check_threshold" /\ pc = "call"
    /\ LET r == check_threshold(level)
       IN /\ pc' = Outcome(r.exc)
          /\ ret' = [NoRet EXCEPT !.exc = r.exc, !.value = r.value]
    /\ UNCHANGED <<op, components, parser, values, args, level, optionstr,
                   values0, args0>>

\* parser.check_args(args)
CheckArgs ==
    /\ op = "check_args" /\ pc = "call"
    /\ LET r == check_args(args)
       IN /\ args' = r.args
          /\ pc' = Outcome(r.exc)
          /\ ret' = [NoRet EXCEPT !.exc = r.exc, !.source = r.source,
                                  !.destination = r.destination]
    /\ UNCHANGED <<op, components, parser, values, level, optionstr,
                   values0, args0>>

\* ConfigParser().optionxform(optionstr)
Optionxform ==
    /\ op = "optionxform" /\ pc = "call"
    /\ pc' = "return"
    /\ ret' = [NoRet EXCEPT !.str = optionxform(optionstr)]
    /\ UNCHANGED <<op, components, parser, values, args, level, optionstr,
                   values0, args0>>

Next ==
    \/ Construct
    \/ CheckValues
    \/ CheckThreshold
    \/ CheckArgs
    \/ Optionxform

Spec == Init /\ [][Next]_vars

\* ============================================================= claims
\* Vocabulary of the claims.
Constructed == op = "__init__" /\ pc = "return"
ConstructFailed == op = "__init__" /\ pc = "raise"

\* The error kinds of the specification, as the exceptions of the code.
ConfigurationError == "ValueError"
DuplicateOptionError == "OptionConflictError"
ParserError == "SystemExit"

\* The entries of the complete (title, description, entries) triples of one
\* cmdline_options sequence, in order.
RECURSIVE TripleEntries(_, _)
TripleEntries(spec, i) ==
    IF i + 3 > Len(spec) THEN <<>>
    ELSE spec[i + 3].spec \o TripleEntries(spec, i + 3)

\* The concatenation of the entries of components k, k+1, ..., upto.
RECURSIVE Concatenation(_, _, _)
Concatenation(comps, k, upto) ==
    IF k > upto THEN <<>>
    ELSE (IF comps[k].none THEN <<>>
          ELSE TripleEntries(comps[k].cmdline_options, 0))
         \o Concatenation(comps, k + 1, upto)

RECURSIVE EntryCount(_, _)
EntryCount(comps, k) ==
    IF k > Len(comps) THEN 0
    ELSE (IF comps[k].none THEN 0
          ELSE Len(TripleEntries(comps[k].cmdline_options, 0)))
         + EntryCount(comps, k + 1)

BuiltinEntries == cmdline_options[3].spec

ExpectedOptions ==
    Concatenation(components, 1, Len(components)) \o BuiltinEntries

IsPrefix(a, b) == Len(a) <= Len(b) /\ a = SubSeq(b, 1, Len(a))

Malformed(c) == ~c.none /\ Len(c.cmdline_options) % 3 # 0

HasMalformed == \E k \in DOMAIN components : Malformed(components[k])

FirstMalformed ==
    CHOOSE k \in DOMAIN components :
        /\ Malformed(components[k])
        /\ \A j \in 1..(k - 1) : ~Malformed(components[j])

\* The entries the merge meets before anything malformed: all of them when
\* every component is well formed, else those of the components before the
\* first malformed one and of its complete triples.
EntriesMet ==
    IF HasMalformed THEN Concatenation(components, 1, FirstMalformed)
    ELSE ExpectedOptions

Collide(a, b) == Strings(a) \cap Strings(b) # {}

HasCollision(entries) ==
    \E i, j \in DOMAIN entries : i < j /\ Collide(entries[i], entries[j])

\* C1: the options registered by a completed construction are, in order, the
\* entries of the non-null components in list order (triples and entries in
\* their own order) followed by the built-in General Docutils Options, so
\* their number is the sum of the components' entry counts plus the built-in
\* ones; a construction that fails has registered a proper prefix of that.
C1_MergeOrder ==
    /\ Constructed =>
          /\ parser.registered = ExpectedOptions
          /\ Len(parser.registered)
                = EntryCount(components, 1) + Len(BuiltinEntries)
          /\ SubSeq(parser.registered, EntryCount(components, 1) + 1,
                    Len(parser.registered)) = BuiltinEntries
    /\ ConstructFailed =>
          /\ IsPrefix(parser.registered, ExpectedOptions)
          /\ parser.registered # ExpectedOptions

C1_Witness ==
    /\ Constructed
    /\ \E k \in DOMAIN components : components[k].none
    /\ \E k \in DOMAIN components :
          Len(components[k].cmdline_options) = 6
    /\ Len(parser.registered) = 2 + Len(BuiltinEntries)

\* Vocabulary of the threshold claims.
Returned(o) == op = o /\ pc = "return"
Raised(o) == op = o /\ pc = "raise"
Finished(o) == op = o /\ pc # "call"

AllDigits(cs) == cs # <<>> /\ \A k \in DOMAIN cs : IsDigit(cs[k])

IntegerString(cs) ==
    \/ AllDigits(cs)
    \/ cs # <<>> /\ cs[1] \in {"+", "-"} /\ AllDigits(Tail(cs))

IntegerValue(cs) ==
    IF cs[1] = "-" THEN 0 - DecimalValue(Tail(cs))
    ELSE IF cs[1] = "+" THEN DecimalValue(Tail(cs))
    ELSE DecimalValue(cs)

NameInfo == <<"i","n","f","o">>
NameWarning == <<"w","a","r","n","i","n","g">>
NameError == <<"e","r","r","o","r">>
NameSevere == <<"s","e","v","e","r","e">>
NameNone == <<"n","o","n","e">>
ThresholdNames == {NameInfo, NameWarning, NameError, NameSevere, NameNone}

Ordinal(name) ==
    CASE name = NameInfo -> 1
      [] name = NameWarning -> 2
      [] name = NameError -> 3
      [] name = NameSevere -> 4
      [] name = NameNone -> 5

\* cs spells name, in any mix of upper and lower case.
Spells(cs, name) ==
    /\ Len(cs) = Len(name)
    /\ \A k \in DOMAIN name : cs[k] \in {name[k], UpperChar(name[k])}

IsNamed(cs) == \E name \in ThresholdNames : Spells(cs, name)

NamedOrdinal(cs) == Ordinal(CHOOSE name \in ThresholdNames : Spells(cs, name))

\* C2: check_threshold returns the integer of every value that parses as an
\* integer, unclamped ("0" gives 0, "99" gives 99, "3" gives 3), and for
\* every other string that spells info, warning, error, severe or none in
\* any letter case the ordinal 1, 2, 3, 4, 5.
C2_Resolves ==
    Finished("check_threshold") =>
      /\ level.t = "int" => pc = "return" /\ ret.value = PyInt(level.i)
      /\ (level.t = "str" /\ IntegerString(level.s)) =>
            pc = "return" /\ ret.value = PyInt(IntegerValue(level.s))
      /\ level = PyChars(<<"0">>) => ret.value = PyInt(0)
      /\ level = PyChars(<<"9", "9">>) => ret.value = PyInt(99)
      /\ level = PyChars(<<"3">>) => ret.value = PyInt(3)
      /\ (level.t = "str" /\ IsNamed(level.s)) =>
            pc = "return" /\ ret.value = PyInt(NamedOrdinal(level.s))
      /\ level \in {PyChars(<<"W","A","R","N","I","N","G">>),
                    PyChars(NameWarning)} => ret.value = PyInt(2)

C2_Witness ==
    /\ Returned("check_threshold")
    /\ level = PyChars(<<"9", "9">>)
    /\ ret.value = PyInt(99)

UnknownLevel ==
    level.t = "str" /\ ~IntegerString(level.s) /\ ~IsNamed(level.s)

UnknownThresholdPrefix == <<"U", "n", "k", "n", "o", "w", "n", " ", "t", "h", "r", "e", "s", "h", "o", "l", "d", ":", " ">>

\* C3 as stated: every string that is neither an integer nor a threshold
\* name makes check_threshold fail with the message "Unknown threshold: "
\* followed by the raw string, and no level is returned.
C3_MessageIsRaw ==
    (Finished("check_threshold") /\ UnknownLevel) =>
      /\ pc = "raise"
      /\ ret.exc = Exc(ParserError, UnknownThresholdPrefix \o level.s)
      /\ ret.value = NoneLevel

\* The message the format 'Unknown threshold: %r.' gives for a string of
\* letters, digits, signs and single quotes: the string in quotes (double
\* quotes when it holds a single quote), then a full stop.
QuotedMessage(cs) ==
    LET q == IF \E k \in DOMAIN cs : cs[k] = "'" THEN "\"" ELSE "'"
    IN UnknownThresholdPrefix \o <<q>> \o cs \o <<q, ".">>

\* C3 amended: every string that is neither an integer nor a threshold name
\* makes check_threshold fail through error() with the message
\* "Unknown threshold: " followed by repr(raw) and a full stop
\* (Unknown threshold: 'bogus'.), and no level is returned.
C3_UnknownRejected ==
    (Finished("check_threshold") /\ UnknownLevel) =>
      /\ pc = "raise"
      /\ ret.exc = Exc(ParserError, QuotedMessage(level.s))
      /\ ret.value = NoneLevel

C3_Witness ==
    /\ Raised("check_threshold")
    /\ level = PyChars(<<"b","o","g","u","s">>)
    /\ ret.exc.msg = UnknownThresholdPrefix
                        \o <<"'","b","o","g","u","s","'",".">>

MaximumArgumentsText == <<"M", "a", "x", "i", "m", "u", "m", " ", "2", " ", "a", "r", "g", "u", "m", "e", "n", "t", "s", " ", "a", "l", "l", "o", "w", "e", "d", ".">>

\* C4: check_args classifies the argument list by its length: none gives
\* (None, None), one gives (args[0], None), two give (args[0], args[1]), and
\* more than two fail with "Maximum 2 arguments allowed." and return no pair.
C4_ArgsByLength ==
    Finished("check_args") =>
      /\ Len(args0) = 0 =>
            pc = "return" /\ ret.source = PyNone /\ ret.destination = PyNone
      /\ Len(args0) = 1 =>
            /\ pc = "return"
            /\ ret.source = PyStr(args0[1]) /\ ret.destination = PyNone
      /\ Len(args0) = 2 =>
            /\ pc = "return"
            /\ ret.source = PyStr(args0[1])
            /\ ret.destination = PyStr(args0[2])
      /\ Len(args0) > 2 =>
            /\ pc = "raise"
            /\ ret.exc = Exc(ParserError, MaximumArgumentsText)
            /\ ret.source = PyNone /\ ret.destination = PyNone

C4_Witness ==
    /\ Raised("check_args")
    /\ Len(args0) = 3
    /\ ret.exc.msg = MaximumArgumentsText

Resolves(lv) == lv.t = "int" \/ IntegerString(lv.s) \/ IsNamed(lv.s)

ResolvedLevel(lv) ==
    IF lv.t = "int" THEN lv
    ELSE IF IntegerString(lv.s) THEN PyInt(IntegerValue(lv.s))
    ELSE PyInt(NamedOrdinal(lv.s))

\* C5: when both thresholds resolve and there are at most two arguments,
\* check_values returns; report_level and halt_level of the Values object
\* then hold the resolved levels of their previous values, every other
\* setting is as before, and the result is that same object with the source
\* and destination check_args gives for args.
C5_Finalize ==
    (Finished("check_values") /\ Resolves(values0.report_level)
        /\ Resolves(values0.halt_level) /\ Len(args0) <= 2) =>
      /\ pc = "return"
      /\ values.report_level = ResolvedLevel(values0.report_level)
      /\ values.halt_level = ResolvedLevel(values0.halt_level)
      /\ values.report_level = check_threshold(values0.report_level).value
      /\ values.halt_level = check_threshold(values0.halt_level).value
      /\ values.generator = values0.generator
      /\ values.language_code = values0.language_code
      /\ values.id = values0.id
      /\ ret.values = values0.id
      /\ ret.source = check_args(args0).source
      /\ ret.destination = check_args(args0).destination
      /\ ret.source = (IF Len(args0) >= 1 THEN PyStr(args0[1]) ELSE PyNone)
      /\ ret.destination = (IF Len(args0) = 2 THEN PyStr(args0[2]) ELSE PyNone)

C5_Witness ==
    /\ Returned("check_values")
    /\ values0.report_level = PyChars(<<"i","n","f","o">>)
    /\ values0.halt_level = PyChars(<<"S","e","v","e","r","e">>)
    /\ values.report_level = PyInt(1)
    /\ values.halt_level = PyInt(4)
    /\ Len(args0) = 2

\* Exactly one error and no result.
OneErrorNoResult ==
    /\ ret.exc # NoExc
    /\ ret.values = 0 /\ ~ret.object
    /\ ret.source = PyNone /\ ret.destination = PyNone

\* C6 as stated: a construction or a check_values that reports an error has
\* applied none of its effects: the Values object and the argument list are
\* as they were, and a failed construction hands out no parser.
C6_NoEffectOnError ==
    /\ Raised("check_values") =>
          OneErrorNoResult /\ values = values0 /\ args = args0
    /\ ConstructFailed => OneErrorNoResult

\* C6 amended: a construction or a check_values either completes or reports
\* exactly one error and returns nothing, but what was done before the error
\* stays done: a failure on report_level leaves values and args as they
\* were; a failure on halt_level leaves report_level overwritten with its
\* resolved level; a failure on the arguments leaves both levels overwritten
\* and the first two arguments removed from args; a failed construction
\* hands out no parser, the options registered before the failure staying
\* on the abandoned object.
C6_FailFast ==
    /\ Finished("check_values") =>
          /\ pc = "return" <=>
                (Resolves(values0.report_level)
                   /\ Resolves(values0.halt_level) /\ Len(args0) <= 2)
          /\ pc = "return" => ret.exc = NoExc /\ ret.values = values0.id
    /\ Raised("check_values") =>
          /\ OneErrorNoResult
          /\ ~Resolves(values0.report_level) =>
                values = values0 /\ args = args0
          /\ (Resolves(values0.report_level)
                /\ ~Resolves(values0.halt_level)) =>
                /\ values = [values0 EXCEPT
                      !.report_level = ResolvedLevel(values0.report_level)]
                /\ args = args0
          /\ (Resolves(values0.report_level)
                /\ Resolves(values0.halt_level)) =>
                /\ values = [values0 EXCEPT
                      !.report_level = ResolvedLevel(values0.report_level),
                      !.halt_level = ResolvedLevel(values0.halt_level)]
                /\ Len(args0) > 2
                /\ args = SubSeq(args0, 3, Len(args0))
                /\ ret.exc = Exc(ParserError, MaximumArgumentsText)
    /\ Constructed => ret.exc = NoExc /\ ret.object
    /\ ConstructFailed =>
          /\ OneErrorNoResult
          /\ IsPrefix(parser.registered, ExpectedOptions)

C6_Witness ==
    /\ Raised("check_values")
    /\ values0.report_level = PyChars(<<"i","n","f","o">>)
    /\ values0.halt_level = PyChars(<<"b","o","g","u","s">>)
    /\ values.report_level = PyInt(1)
    /\ values.halt_level = values0.halt_level

\* C7 as stated: a component whose cmdline_options has a length that is not
\* a multiple of three makes the merge fail with a ConfigurationError, and
\* lengths that are multiples of three never raise it.
C7_UnevenIsConfigurationError ==
    Finished("__init__") =>
      /\ HasMalformed =>
            pc = "raise" /\ ret.exc.kind = ConfigurationError
      /\ ~HasMalformed => ret.exc.kind # ConfigurationError

\* C7 amended: a component whose cmdline_options has a length that is not a
\* multiple of three makes the merge fail; the error is the
\* ConfigurationError (the ValueError of the unpacking) unless two of the
\* entries met before the incomplete triple share a flag string, and then
\* it is the DuplicateOptionError of that earlier entry; lengths that are
\* all multiples of three never raise the ConfigurationError.
C7_UnevenFails ==
    Finished("__init__") =>
      /\ HasMalformed =>
            /\ pc = "raise"
            /\ ret.exc.kind =
                  (IF HasCollision(EntriesMet) THEN DuplicateOptionError
                   ELSE ConfigurationError)
      /\ ~HasMalformed => ret.exc.kind # ConfigurationError

C7_Witness ==
    /\ ConstructFailed
    /\ ret.exc.kind = ConfigurationError
    /\ \E k \in DOMAIN components : Len(components[k].cmdline_options) = 4
    /\ Len(parser.registered) = 2

\* The (title, description, entries) triples of the complete triples of one
\* cmdline_options sequence, and of a list of components.
RECURSIVE Triples(_, _)
Triples(spec, i) ==
    IF i + 3 > Len(spec) THEN <<>>
    ELSE <<SubSeq(spec, i + 1, i + 3)>> \o Triples(spec, i + 3)

RECURSIVE AllTriples(_, _)
AllTriples(comps, k) ==
    IF k > Len(comps) THEN <<>>
    ELSE (IF comps[k].none THEN <<>>
          ELSE Triples(comps[k].cmdline_options, 0))
         \o AllTriples(comps, k + 1)

Titled(triple) == triple[1].t = "str" /\ triple[1].s # ""

ProcessedTriples == AllTriples(components, 1) \o <<cmdline_options>>

TitledTriples == SelectSeq(ProcessedTriples, Titled)

RECURSIVE Untitled(_, _)
Untitled(triples, k) ==
    IF k > Len(triples) THEN <<>>
    ELSE (IF Titled(triples[k]) THEN <<>> ELSE triples[k][3].spec)
         \o Untitled(triples, k + 1)

\* C8: after a completed merge there is one section for every triple with a
\* non-empty title, in order, each with that triple's title, description and
\* entries, also when titles repeat; the entries of the triples with an
\* empty title are the top-level bucket, in order.
C8_SectionPerTitledTriple ==
    Constructed =>
      /\ Len(parser.option_groups) = Len(TitledTriples)
      /\ \A k \in DOMAIN parser.option_groups :
            /\ parser.option_groups[k].title = TitledTriples[k][1]
            /\ parser.option_groups[k].description = TitledTriples[k][2]
            /\ parser.option_groups[k].option_list = TitledTriples[k][3].spec
      /\ parser.option_list = Untitled(ProcessedTriples, 1)

C8_Witness ==
    /\ Constructed
    /\ Len(parser.option_groups) = 3
    /\ parser.option_groups[1].title = ItemStr("Foo")
    /\ parser.option_groups[2].title = ItemStr("Foo")
    /\ parser.option_groups[1].option_list # parser.option_groups[2].option_list

\* C9: the merge never binds a flag string twice: it fails with a
\* DuplicateOptionError at the first entry that shares a flag string with an
\* entry registered before it, whichever components, sections or bucket the
\* two belong to, the built-in group included; so after a completed
\* construction no two options share a flag string.
C9_DuplicateFlagFails ==
    Finished("__init__") =>
      /\ ~HasCollision(parser.registered)
      /\ HasCollision(EntriesMet) =>
            pc = "raise" /\ ret.exc.kind = DuplicateOptionError
      /\ ret.exc.kind = DuplicateOptionError =>
            /\ Len(parser.registered) < Len(ExpectedOptions)
            /\ IsPrefix(parser.registered, ExpectedOptions)
            /\ \E k \in DOMAIN parser.registered :
                  Collide(parser.registered[k],
                          ExpectedOptions[Len(parser.registered) + 1])
      /\ pc = "return" => ~HasCollision(ExpectedOptions)

C9_Witness ==
    /\ ConstructFailed
    /\ ret.exc.kind = DuplicateOptionError
    /\ Len(components) = 1
    /\ parser.option_list = <<OptHint>>
    /\ Len(parser.registered) = 19

UpperLetters == {UpperCase[k] : k \in DOMAIN UpperCase}

\* C10: optionxform returns for every key the key with its upper-case
\* letters made lower case and its dashes made underscores, every other
\* character kept ("Report-Level" and "REPORT_LEVEL" give "report_level");
\* it never fails, and applying it to its result changes nothing.
C10_Normalize ==
    Finished("optionxform") =>
      /\ pc = "return" /\ ret.exc = NoExc
      /\ Len(ret.str) = Len(optionstr)
      /\ \A k \in DOMAIN optionstr :
            /\ ret.str[k] \notin UpperLetters \cup {"-"}
            /\ optionstr[k] = "-" => ret.str[k] = "_"
            /\ optionstr[k] \in UpperLetters =>
                  /\ ret.str[k] # optionstr[k]
                  /\ UpperChar(ret.str[k]) = optionstr[k]
            /\ optionstr[k] \notin UpperLetters \cup {"-"} =>
                  ret.str[k] = optionstr[k]
      /\ optionstr \in {<<"R","e","p","o","r","t","-","L","e","v","e","l">>,
                        <<"R","E","P","O","R","T","_","L","E","V","E","L">>} =>
            ret.str = <<"r","e","p","o","r","t","_","l","e","v","e","l">>
      /\ optionxform(ret.str) = ret.str

C10_Witness ==
    /\ Returned("optionxform")
    /\ optionstr = <<"R","e","p","o","r","t","-","L","e","v","e","l">>
    /\ ret.str = <<"r","e","p","o","r","t","_","l","e","v","e","l">>

====
